---- MODULE Spec2Model ----
(***************************************************************************)
(* go-tftpd: the TFTP server of package tftpd (TFTPServer).  One datagram  *)
(* is read into the reused receive buffer and handled to completion by     *)
(* handleConnection before the next one is read.  The model keeps the      *)
(* session table, the backing file store, the receive buffer and the       *)
(* packets written to the socket; bytes are naturals 0..255 and strings    *)
(* are sequences of bytes.                                                 *)
(***************************************************************************)
EXTENDS Integers, Sequences, FiniteSets, TLC

\* ------------------------------------------------------------------------
\* Program constants
\* ------------------------------------------------------------------------
bodyMaxSize == 2048
defaultBlockSize == 512
hdrsize == 4

opUNK == 0
opRRQ == 1
opWRQ == 2
opDATA == 3
opACK == 4
opERROR == 5

ecNDEF == 0
ecFNF == 1
ecACV == 2
ecDSK == 3
ecILL == 4
ecUTID == 5
ecFEX == 6
ecNOUS == 7

\* ------------------------------------------------------------------------
\* Bounds of the exploration
\* ------------------------------------------------------------------------
\* datagrams handled in one run of the server
MaxSteps == 3
\* highest block number a client puts in an ACK or DATA datagram
MaxBlock == 3
MaxLen == 4

\* ------------------------------------------------------------------------
\* Byte strings
\* ------------------------------------------------------------------------
msgFNF == <<70, 105, 108, 101, 32, 110, 111, 116, 32, 102, 111, 117, 110, 100, 46>>
msgACV == <<65, 99, 99, 101, 115, 115, 32, 118, 105, 111, 108, 97, 116, 105, 111, 110, 46>>
msgDSK == <<68, 105, 115, 107, 32, 102, 117, 108, 108, 32, 111, 114, 32, 97, 108, 108, 111, 99, 97, 116, 105, 111, 110, 32, 101, 120, 99, 101, 101, 100, 101, 100, 46>>
msgILL == <<73, 108, 108, 101, 103, 97, 108, 32, 84, 70, 84, 80, 32, 111, 112, 101, 114, 97, 116, 105, 111, 110, 46>>
msgUTID == <<85, 110, 107, 110, 111, 119, 110, 32, 116, 114, 97, 110, 115, 102, 101, 114, 32, 73, 68, 46>>
msgFEX == <<70, 105, 108, 101, 32, 97, 108, 114, 101, 97, 100, 121, 32, 101, 120, 105, 115, 116, 115, 46>>
msgNOUS == <<78, 111, 32, 115, 117, 99, 104, 32, 117, 115, 101, 114, 46>>
msgUnexpected == <<85, 110, 101, 120, 112, 101, 99, 116, 101, 100, 32, 101, 114, 114, 111, 114, 46>>
modePrefix == <<73, 110, 99, 111, 114, 114, 101, 99, 116, 32, 109, 111, 100, 101, 32, 39>>
modeSuffix == <<39, 46, 32, 84, 104, 105, 115, 32, 115, 101, 114, 118, 101, 114, 32, 115, 117, 112, 112, 111, 114, 116, 115, 32, 111, 110, 108, 121, 32, 39, 111, 99, 116, 101, 116, 39, 32, 109, 111, 100, 101, 46>>
octet == <<111, 99, 116, 101, 116>>
netascii == <<110, 101, 116, 97, 115, 99, 105, 105>>

\* tftpErrors[code]: the canonical message of each error code
tftpErrors(code) ==
  CASE code = ecNDEF -> <<>>
    [] code = ecFNF -> msgFNF
    [] code = ecACV -> msgACV
    [] code = ecDSK -> msgDSK
    [] code = ecILL -> msgILL
    [] code = ecUTID -> msgUTID
    [] code = ecFEX -> msgFEX
    [] code = ecNOUS -> msgNOUS

Min(x, y) == IF x <= y THEN x ELSE y

\* s[from:] of Go, with from counted from 0
Tail0(s, from) == SubSeq(s, from + 1, Len(s))

\* the one element of a singleton.  Only({e : x \in {v}}) is e with x bound
\* to the value of v: a local variable assigned once.
Only(S) == CHOOSE x \in S : TRUE

\* ------------------------------------------------------------------------
\* util.go
\* ------------------------------------------------------------------------
\* toCString without the terminator
toCStringBare(src) == src

toCString(src) == Append(src, 0)

\* the loop of readCString, taken scanStride bytes at a time: the first
\* index (from 0) at or after `end` that holds a zero byte, or Len(src)
\* when there is none
scanStride == bodyMaxSize \div 32

RECURSIVE scanCString(_, _)
scanCString(src, end) ==
  IF end >= Len(src) THEN end
  ELSE
    LET hi == Min(end + scanStride, Len(src))
        zs == {i \in (end + 1)..hi : src[i] = 0}
    IN
    IF zs = {} THEN scanCString(src, hi)
    ELSE (CHOOSE z \in zs : \A y \in zs : z <= y) - 1

\* readCString that tells a missing terminator only past the end
readCStringNoCheck(src) ==
  LET end == scanCString(src, 0) IN
  IF end > Len(src)
    THEN [n |-> 0, str |-> <<>>, err |-> TRUE]
    ELSE [n |-> end + 1, str |-> SubSeq(src, 1, end), err |-> FALSE]

readCString(src) ==
  LET end == scanCString(src, 0) IN
  IF end >= Len(src)
    THEN [n |-> 0, str |-> <<>>, err |-> TRUE]
    ELSE [n |-> end + 1, str |-> SubSeq(src, 1, end), err |-> FALSE]

\* ------------------------------------------------------------------------
\* Errors: nil, endOfSession, a *tftpError, or any other Go error
\* ------------------------------------------------------------------------
NoErr == [kind |-> "nil", code |-> 0, message |-> <<>>]
endOfSession == [kind |-> "endOfSession", code |-> 0, message |-> <<>>]
\* an error that is not a *tftpError (fmt.Errorf, *fs.PathError, ...)
GoErr(name) == [kind |-> name, code |-> 0, message |-> <<>>]
panicErr == [kind |-> "panic", code |-> 0, message |-> <<>>]

newTFTPError(code, clientMessage) ==
  LET c == IF code > ecNOUS THEN ecNDEF ELSE code IN
  [kind |-> "tftp", code |-> c,
   message |-> IF c = ecNDEF THEN clientMessage ELSE tftpErrors(c)]

\* ------------------------------------------------------------------------
\* Requests
\* ------------------------------------------------------------------------
emptyRequest ==
  [numRead |-> 0, body |-> <<>>, opcode |-> opUNK, number |-> 0,
   filename |-> <<>>, mode |-> <<>>, errorMessage |-> <<>>]

Uint16(b) == b[1] * 256 + b[2]

\* the RRQ/WRQ case of newRequest with every mode accepted
newRequestAnyMode(req0, b0) ==
  Only({
    IF f.err THEN [err |-> GoErr("Incorrect c string"), req |-> req0]
    ELSE
      Only({
        IF m.err THEN [err |-> GoErr("Incorrect c string"), req |-> req0]
        ELSE [err |-> NoErr,
              req |-> [req0 EXCEPT !.filename = f.str, !.mode = m.str,
                                   !.body = Tail0(Tail0(b0, f.n), m.n)]]
        : m \in {readCString(Tail0(b0, f.n))}})
    : f \in {readCString(b0)}})

\* the RRQ/WRQ case of newRequest, after the opcode
newRequestRQ(req0, b0) ==
  Only({
    IF f.err THEN [err |-> GoErr("Incorrect c string"), req |-> req0]
    ELSE
      Only({
        IF m.err THEN [err |-> GoErr("Incorrect c string"), req |-> req0]
        ELSE IF m.str # octet
          THEN [err |-> newTFTPError(ecNDEF, modePrefix \o m.str \o modeSuffix),
                req |-> req0]
          ELSE [err |-> NoErr,
                req |-> [req0 EXCEPT !.filename = f.str, !.mode = m.str,
                                     !.body = Tail0(Tail0(b0, f.n), m.n)]]
        : m \in {readCString(Tail0(b0, f.n))}})
    : f \in {readCString(b0)}})

\* the ERROR case of newRequest, after the opcode
newRequestERROR(req0, b0) ==
  Only({
    IF e.err THEN [err |-> GoErr("Incorrect c string"), req |-> req0]
    ELSE [err |-> NoErr,
          req |-> [req0 EXCEPT !.number = Uint16(b0), !.errorMessage = e.str,
                               !.body = Tail0(Tail0(b0, 2), e.n)]]
    : e \in {readCString(Tail0(b0, 2))}})

\* newRequest: [err, req].  body is the whole receive buffer; only its
\* first numRead bytes belong to the datagram.
newRequest(numRead, body) ==
  Only({
    Only({
      IF req0.opcode \in {opRRQ, opWRQ} THEN newRequestRQ(req0, b0)
      ELSE IF req0.opcode \in {opDATA, opACK} THEN
        \* req.body[:req.numRead-hdrsize] panics on a negative bound
        IF numRead - hdrsize < 0
          THEN [err |-> panicErr, req |-> req0]
          ELSE [err |-> NoErr,
                req |-> [req0 EXCEPT !.number = Uint16(b0),
                                     !.body = SubSeq(b0, 3, 2 + (numRead - hdrsize))]]
      ELSE IF req0.opcode = opERROR THEN newRequestERROR(req0, b0)
      ELSE [err |-> NoErr, req |-> req0]
      : req0 \in {[emptyRequest EXCEPT !.numRead = numRead, !.opcode = body[2],
                                       !.body = b0]}})
    : b0 \in {Tail0(body, 2)}})

\* ------------------------------------------------------------------------
\* Backing store and file handles (os.File).  fs maps the name of every
\* existing file to its content; a handle is nil, open or closed and keeps
\* its own offset.
\* ------------------------------------------------------------------------
nilFile == [st |-> "nil", name |-> <<>>, pos |-> 0, wr |-> FALSE]

\* The I/O calls made while one datagram is handled run under a fault:
\* "none", "read" (the file read fails), "write" or "enospc" (the file
\* write fails, without or with ENOSPC), "net" (the socket is down: every
\* write to it fails).

\* Opening a file runs under a fault as well: "eacces" (os.Open or
\* os.Create is denied), "createnospc" (no space for the new file),
\* "openio" (they fail otherwise), "statacces" and "statio" (os.Stat is
\* denied, or fails otherwise).
openFault(fault) ==
  IF fault = "eacces" THEN GoErr("ErrPermission")
  ELSE IF fault = "createnospc" THEN GoErr("ENOSPC")
  ELSE IF fault = "openio" THEN GoErr("EIO")
  ELSE NoErr

statFault(fault) ==
  IF fault = "statacces" THEN GoErr("ErrPermission")
  ELSE IF fault = "statio" THEN GoErr("EIO")
  ELSE NoErr

\* os.Open: read-only handle at offset 0
osOpen(store, name, fault) ==
  IF openFault(fault).kind # "nil" THEN [err |-> openFault(fault), file |-> nilFile]
  ELSE IF name \in DOMAIN store
    THEN [err |-> NoErr, file |-> [st |-> "open", name |-> name, pos |-> 0, wr |-> FALSE]]
    ELSE [err |-> GoErr("ErrNotExist"), file |-> nilFile]

\* os.Stat: only the error matters to the caller
osStat(store, name, fault) ==
  IF statFault(fault).kind # "nil" THEN statFault(fault)
  ELSE IF name \in DOMAIN store THEN NoErr ELSE GoErr("ErrNotExist")

\* os.Create: O_RDWR|O_CREATE|O_TRUNC; DOMAIN store grows by name
osCreate(store, name, fault) ==
  IF openFault(fault).kind # "nil"
    THEN [err |-> openFault(fault), file |-> nilFile, store |-> store]
    ELSE [err |-> NoErr,
          file |-> [st |-> "open", name |-> name, pos |-> 0, wr |-> TRUE],
          store |-> (name :> <<>>) @@ store]

\* (*os.File).Read into a buffer of len bytes: [err, n, data, file]
fileRead(store, file, len, fault) ==
  IF file.st = "nil" THEN [err |-> GoErr("ErrInvalid"), n |-> 0, data |-> <<>>, file |-> file]
  ELSE IF file.st = "closed" THEN [err |-> GoErr("ErrClosed"), n |-> 0, data |-> <<>>, file |-> file]
  ELSE IF len = 0 THEN [err |-> NoErr, n |-> 0, data |-> <<>>, file |-> file]
  ELSE IF fault = "read" THEN [err |-> GoErr("EIO"), n |-> 0, data |-> <<>>, file |-> file]
  ELSE
    LET size == Len(store[file.name])
        n == Min(len, size - file.pos)
    IN
    IF n <= 0
      THEN [err |-> GoErr("EOF"), n |-> 0, data |-> <<>>, file |-> file]
      ELSE [err |-> NoErr, n |-> n,
            data |-> SubSeq(store[file.name], file.pos + 1, file.pos + n),
            file |-> [file EXCEPT !.pos = file.pos + n]]

\* fileWrite with the offset left where it was
fileWriteStuck(store, file, data, fault) ==
  IF Len(data) = 0 \/ file.st # "open" \/ ~file.wr \/ fault \in {"enospc", "write"}
    THEN [err |-> IF Len(data) = 0 THEN NoErr ELSE GoErr("EIO"),
          file |-> file, store |-> store]
    ELSE
      LET old == store[file.name] IN
      [err |-> NoErr, file |-> file,
       store |-> [store EXCEPT ![file.name] =
                    SubSeq(old, 1, file.pos) \o data
                      \o SubSeq(old, file.pos + Len(data) + 1, Len(old))]]

\* io.Copy(file, bytes.NewReader(data)): [err, file, store].  An empty
\* reader returns before the file is touched.
fileWrite(store, file, data, fault) ==
  IF Len(data) = 0 THEN [err |-> NoErr, file |-> file, store |-> store]
  ELSE IF file.st = "nil" THEN [err |-> GoErr("ErrInvalid"), file |-> file, store |-> store]
  ELSE IF file.st = "closed" THEN [err |-> GoErr("ErrClosed"), file |-> file, store |-> store]
  ELSE IF ~file.wr THEN [err |-> GoErr("EBADF"), file |-> file, store |-> store]
  ELSE IF fault = "enospc" THEN [err |-> GoErr("ENOSPC"), file |-> file, store |-> store]
  ELSE IF fault = "write" THEN [err |-> GoErr("EIO"), file |-> file, store |-> store]
  ELSE
    LET old == store[file.name]
        new == SubSeq(old, 1, file.pos) \o data
                 \o SubSeq(old, file.pos + Len(data) + 1, Len(old))
    IN
    [err |-> NoErr,
     file |-> [file EXCEPT !.pos = file.pos + Len(data)],
     store |-> [store EXCEPT ![file.name] = new]]

\* Close that leaves the handle open
fileCloseNot(file) == file

\* (*os.File).Close: the error of closing a nil or closed handle is dropped
fileClose(file) == IF file.st = "open" THEN [file EXCEPT !.st = "closed"] ELSE file

\* ------------------------------------------------------------------------
\* Clients
\* ------------------------------------------------------------------------
newClient ==
  [file |-> nilFile, inited |-> FALSE, lastPkt |-> FALSE, blockSize |-> 0,
   bytesLeft |-> 0]

\* the switch of prepareFromRequest over the error of os.Open / os.Create
openError(err) ==
  IF err.kind = "ErrNotExist" THEN newTFTPError(ecFNF, <<>>)
  ELSE IF err.kind = "ErrPermission" THEN newTFTPError(ecACV, <<>>)
  ELSE IF err.kind = "ENOSPC" THEN newTFTPError(ecDSK, <<>>)
  ELSE err

\* the end of prepareFromRequest, o being what os.Open or os.Create gave
\* and store the backing store after it
prepared(cli, o, store) ==
  IF o.err.kind # "nil"
    THEN [err |-> openError(o.err), cli |-> cli, store |-> store]
    ELSE [err |-> NoErr,
          cli |-> [cli EXCEPT !.file = o.file, !.bytesLeft = Len(store[o.file.name]),
                              !.blockSize = defaultBlockSize, !.inited = TRUE],
          store |-> store]

\* prepareFromRequest without the os.Stat that precedes os.Create
prepareNoStat(cli, req, store, fault) ==
  IF req.opcode = opRRQ
    THEN prepared(cli, osOpen(store, req.filename, fault), store)
    ELSE Only({prepared(cli, c, c.store) : c \in {osCreate(store, req.filename, fault)}})

\* prepareFromRequest: [err, cli, store]
prepareFromRequest(cli, req, store, fault) ==
  IF req.opcode = opRRQ
    THEN prepared(cli, osOpen(store, req.filename, fault), store)
  ELSE IF osStat(store, req.filename, fault).kind # "ErrNotExist"
    THEN [err |-> newTFTPError(ecFEX, <<>>), cli |-> cli, store |-> store]
    ELSE Only({prepared(cli, c, c.store) : c \in {osCreate(store, req.filename, fault)}})

\* ------------------------------------------------------------------------
\* Responses
\* ------------------------------------------------------------------------
emptyResponse == [opcode |-> opUNK, number |-> 0, body |-> <<>>, len |-> 0]

\* newResponse with the block number kept wider than 16 bits
newResponseWide(cli, req) ==
  IF req.opcode \in {opRRQ, opACK}
    THEN [opcode |-> opDATA, number |-> req.number + 1,
          body |-> <<>>, len |-> cli.blockSize]
  ELSE IF req.opcode \in {opWRQ, opDATA}
    THEN [opcode |-> opACK, number |-> req.number, body |-> <<>>, len |-> 0]
  ELSE emptyResponse

\* newResponse; len is the length of the buffer made for a DATA body
newResponse(cli, req) ==
  IF req.opcode \in {opRRQ, opACK}
    THEN [opcode |-> opDATA, number |-> (req.number + 1) % 65536,
          body |-> <<>>, len |-> cli.blockSize]
  ELSE IF req.opcode \in {opWRQ, opDATA}
    THEN [opcode |-> opACK, number |-> req.number, body |-> <<>>, len |-> 0]
  ELSE emptyResponse

\* the datagram sendResponse writes to the socket
encodeResponse(resp) ==
  <<0, resp.opcode % 256, resp.number \div 256, resp.number % 256>> \o resp.body

\* ------------------------------------------------------------------------
\* The server.  A server state T is [connections, fs, nopen]: the session
\* table, the backing store and the number of file handles the process
\* holds open.
\* ------------------------------------------------------------------------

\* the io.Copy of handleRequest: [err, T]
handleData(T, a, req, fault) ==
  Only({
    Only({
      IF w.err.kind = "nil" THEN [err |-> NoErr, T |-> T2]
      ELSE IF w.err.kind = "ENOSPC" THEN [err |-> newTFTPError(ecDSK, <<>>), T |-> T2]
      ELSE [err |-> w.err, T |-> T2]
      : T2 \in {[T EXCEPT !.connections[a].file = w.file, !.fs = w.store]}})
    : w \in {fileWrite(T.fs, T.connections[a].file, req.body, fault)}})

\* handleRequest: [err, T].  cli is T.connections[a].
handleRequest(T, a, req, fault) ==
  Only({
    IF req.opcode < opRRQ \/ req.opcode > opERROR
      THEN [err |-> newTFTPError(ecILL, <<>>), T |-> T]
    ELSE IF req.opcode = opACK /\ cli.inited /\ cli.lastPkt
      THEN [err |-> endOfSession,
            T |-> [T EXCEPT !.connections =
                     [x \in DOMAIN T.connections \ {a} |-> T.connections[x]]]]
    ELSE IF ~cli.inited /\ req.opcode # opRRQ /\ req.opcode # opWRQ
      THEN [err |-> newTFTPError(ecUTID, <<>>), T |-> T]
    ELSE
      Only({
        Only({
          IF p.err.kind # "nil" THEN [err |-> p.err, T |-> T1]
          ELSE IF req.opcode = opERROR THEN [err |-> NoErr, T |-> T1]
          ELSE IF req.opcode = opDATA THEN handleData(T1, a, req, fault)
          ELSE [err |-> NoErr, T |-> T1]
          : T1 \in {[T EXCEPT !.connections[a] = p.cli, !.fs = p.store,
                              !.nopen = IF p.cli.file.st = "open" /\ cli.file.st # "open"
                                          THEN T.nopen + 1 ELSE T.nopen]}})
        : p \in {IF ~cli.inited
                   THEN prepareFromRequest(cli, req, T.fs, fault)
                   ELSE [err |-> NoErr, cli |-> cli, store |-> T.fs]}})
    : cli \in {T.connections[a]}})

\* handleResponse with the last block told after bytesLeft is decreased
handleResponseEarly(T, a, resp, fault) ==
  IF resp.opcode = opDATA THEN
    Only({
      IF r.err.kind # "nil" /\ r.err.kind # "EOF"
        THEN [err |-> r.err, T |-> T, resp |-> resp]
        ELSE
          Only({
            [err |-> NoErr,
             T |-> [T EXCEPT !.connections[a] =
                               [@ EXCEPT !.file = IF last THEN fileClose(r.file) ELSE r.file,
                                         !.lastPkt = IF last THEN TRUE ELSE @,
                                         !.bytesLeft = @ - r.n],
                             !.nopen = IF last /\ r.file.st = "open" THEN @ - 1 ELSE @],
             resp |-> [resp EXCEPT !.body = r.data]]
            : last \in {T.connections[a].bytesLeft - r.n <= 0}})
      : r \in {fileRead(T.fs, T.connections[a].file, resp.len, fault)}})
  ELSE [err |-> NoErr, T |-> T, resp |-> resp]

\* handleResponse: [err, T, resp]
handleResponse(T, a, resp, fault) ==
  IF resp.opcode = opDATA THEN
    Only({
      IF r.err.kind # "nil" /\ r.err.kind # "EOF"
        THEN [err |-> r.err, T |-> T, resp |-> resp]
        ELSE
          Only({
            [err |-> NoErr,
             T |-> [T EXCEPT !.connections[a] =
                               [@ EXCEPT !.file = IF last THEN fileClose(r.file) ELSE r.file,
                                         !.lastPkt = IF last THEN TRUE ELSE @,
                                         !.bytesLeft = @ - r.n],
                             !.nopen = IF last /\ r.file.st = "open" THEN @ - 1 ELSE @],
             resp |-> [resp EXCEPT !.body = r.data]]
            : last \in {T.connections[a].bytesLeft <= 0}})
      : r \in {fileRead(T.fs, T.connections[a].file, resp.len, fault)}})
  ELSE [err |-> NoErr, T |-> T, resp |-> resp]

\* sendResponse: [err, out]; out is what reached the socket
sendResponse(a, resp, fault) ==
  IF fault = "net"
    THEN [err |-> GoErr("WriteTo"), out |-> <<>>]
    ELSE [err |-> NoErr, out |-> <<[to |-> a, data |-> encodeResponse(resp)]>>]

sendError(a, err, fault) ==
  sendResponse(a, [opcode |-> opERROR, number |-> err.code,
                   body |-> toCString(err.message), len |-> 0], fault)

\* handleError: [T, out, crashed].  The client is marked, not removed; the
\* error of sendError is a panic.
handleError(T, a, err, fault) ==
  Only({
    [T |-> [T EXCEPT !.connections[a].inited = TRUE,
                     !.connections[a].lastPkt = TRUE],
     out |-> s.out,
     crashed |-> s.err.kind # "nil"]
    : s \in {sendError(a, IF err.kind = "tftp" THEN err
                          ELSE newTFTPError(ecNDEF, msgUnexpected), fault)}})

\* the closure of handleConnection from newResponse on: [err, T, out]
respond(T, a, req, fault) ==
  Only({
    IF g.err.kind # "nil" THEN [err |-> g.err, T |-> g.T, out |-> <<>>]
    ELSE
      Only({[err |-> s.err, T |-> g.T, out |-> s.out]
            : s \in {sendResponse(a, g.resp, fault)}})
    : g \in {handleResponse(T, a, newResponse(T.connections[a], req), fault)}})

\* the closure run by handleConnection: [err, T, out]
serve(T, a, numRead, body, fault) ==
  Only({
    IF q.err.kind # "nil" THEN [err |-> q.err, T |-> T, out |-> <<>>]
    ELSE
      Only({
        IF h.err.kind # "nil" THEN [err |-> h.err, T |-> h.T, out |-> <<>>]
        ELSE respond(h.T, a, q.req, fault)
        : h \in {handleRequest(T, a, q.req, fault)}})
    : q \in {newRequest(numRead, body)}})

\* handleConnection: [T, out, crashed, err]
handleConnection(T, a, numRead, body, fault) ==
  Only({
    IF r.err.kind = "panic"
      THEN [T |-> r.T, out |-> r.out, crashed |-> TRUE, err |-> r.err]
    ELSE IF r.err.kind # "nil" /\ r.err.kind # "endOfSession"
      THEN Only({[T |-> e.T, out |-> r.out \o e.out, crashed |-> e.crashed, err |-> r.err]
                 : e \in {handleError(r.T, a, r.err, fault)}})
    ELSE [T |-> r.T, out |-> r.out, crashed |-> FALSE, err |-> r.err]
    : r \in {serve(IF a \in DOMAIN T.connections THEN T
                   ELSE [T EXCEPT !.connections = (a :> newClient) @@ T.connections],
                   a, numRead, body, fault)}})

\* ------------------------------------------------------------------------
\* Clients of the exploration: addresses, file names and datagrams
\* ------------------------------------------------------------------------
Addrs == {"a1", "a2"}

\* "f" exists when the server starts, "g" does not
fileF == <<102>>
fileG == <<103>>

\* sizes of "f" the runs start from
FileSizes == {0, 3, 512, 1000}

content(n) == [i \in 1..n |-> 1 + (i % 200)]

fullA == [i \in 1..defaultBlockSize |-> 65]
shortC == <<67, 67, 67>>

MkRQ(op, filename, mode) == <<0, op>> \o toCString(filename) \o toCString(mode)
MkDATA(n, payload) == <<0, opDATA, n \div 256, n % 256>> \o payload
MkACK(n) == <<0, opACK, n \div 256, n % 256>>
MkERROR(code, msg) == <<0, opERROR, code \div 256, code % 256>> \o toCString(msg)

\* a read request that fills the receive buffer and holds no zero byte
\* after its opcode
longRRQ == <<0, opRRQ>> \o [i \in 1..(bodyMaxSize - 2) |-> 120]

\* a read request whose first opcode byte is not zero (opcode 257)
highRRQ == <<1, opRRQ>> \o toCString(fileF) \o toCString(octet)

\* a read request cut before the zero byte that ends its mode
cutRRQ == <<0, opRRQ>> \o toCString(fileF) \o octet

\* datagrams shorter than the 4-byte header
shortACK == <<0, opACK>>

\* what the first client may send
Datagrams ==
  {MkRQ(op, n, octet) : op \in {opRRQ, opWRQ}, n \in {fileF, fileG}}
    \cup {MkRQ(opRRQ, fileF, netascii), MkRQ(opWRQ, fileG, netascii), longRRQ, highRRQ}
    \cup {MkACK(n) : n \in 1..MaxBlock} \cup {MkACK(65535)}
    \cup {MkDATA(n, p) : n \in 1..2, p \in {fullA, shortC}}
    \cup {MkDATA(2, <<>>), MkERROR(ecNDEF, <<120>>)}
    \cup {<<0, 0>>, <<0, 6, 0, 1>>, <<>>, shortACK, cutRRQ}

\* what the second client may send
Datagrams2 == {MkRQ(opRRQ, fileF, octet), MkRQ(opWRQ, fileG, octet),
               MkACK(1), MkDATA(1, shortC)}

\* the datagrams during whose handling an I/O call fails
Faulty ==
  {<<MkRQ(opRRQ, fileF, octet), "read">>, <<MkACK(1), "read">>,
   <<MkDATA(1, fullA), "enospc">>, <<MkDATA(1, fullA), "write">>,
   <<MkRQ(opRRQ, fileF, octet), "net">>,
   <<MkRQ(opRRQ, fileF, octet), "eacces">>, <<MkRQ(opRRQ, fileF, octet), "openio">>,
   <<MkRQ(opWRQ, fileG, octet), "eacces">>, <<MkRQ(opWRQ, fileG, octet), "createnospc">>,
   <<MkRQ(opWRQ, fileG, octet), "statacces">>, <<MkRQ(opWRQ, fileG, octet), "statio">>}

Inputs ==
  {[addr |-> "a1", d |-> d, fault |-> "none"] : d \in Datagrams}
    \cup {[addr |-> "a1", d |-> x[1], fault |-> x[2]] : x \in Faulty}
    \cup {[addr |-> "a2", d |-> d, fault |-> "none"] : d \in Datagrams2}

\* ------------------------------------------------------------------------
\* State
\* ------------------------------------------------------------------------
VARIABLES
  connections,  \* tftp.connections: address -> client
  fs,           \* the backing store: file name -> content
  nopen,        \* file handles the process holds open
  body,         \* the receive buffer of ListenAndServe
  crashed,      \* the process ended in a panic
  steps,        \* datagrams handled so far
  in,           \* the datagram handled last: its sender and length, whether
                \* the sender had a table entry and what its stream was
                \* ("none" without an entry), whether handling failed,
                \* whether a file was opened, read, written or closed,
                \* whether the file it names existed, the table entry of
                \* the sender before it was handled (was; a new client
                \* without one) and the DATA block sent last to the sender
                \* in a read by the book (sent; <<>> without one), the
                \* fault its I/O calls ran under
  out,          \* the packets written to the socket while handling it
  sess,         \* per address, the record of a transfer driven by the book
  cstr,         \* a string handed to toCString and readCString, and the result
  finished      \* the addresses whose read by the book was removed by its
                \* final ACK and that sent only DATA and ACK datagrams since

vars == <<connections, fs, nopen, body, crashed, steps, in, out, sess, cstr, finished>>

\* the request decoded from the datagram handled last
lastReq == newRequest(in.numRead, body)

PktOp(p) == p.data[2]
PktNum(p) == p.data[3] * 256 + p.data[4]
PktBody(p) == Tail0(p.data, hdrsize)

noSess == [kind |-> "none", name |-> <<>>, size |-> 0, log |-> <<>>, acked |-> 0,
           bytes |-> <<>>, ended |-> FALSE]
dirtySess == [noSess EXCEPT !.kind = "dirty"]

\* The record of a transfer.  A read transfer is by the book while it is an
\* RRQ from an address without a table entry followed by ACKs that each
\* carry the number of the DATA block sent last; log lists the DATA blocks
\* sent as <<number, payload length>>, acked counts the ACKs, ended tells
\* that the table entry is gone.  A write transfer is by the book while it
\* is a WRQ from an address without a table entry followed by DATA blocks
\* of at most blockSize bytes, until one is shorter (ended); bytes is the
\* concatenation of the payloads.  Anything else, a failure included,
\* makes the record "dirty".
nextSess(s, had, q, r, a, store) ==
  LET ok == q.err.kind = "nil" /\ r.err.kind \in {"nil", "endOfSession"} /\ ~r.crashed
      op == q.req.opcode
      gone == a \notin DOMAIN r.T.connections
      sentData == Len(r.out) = 1 /\ PktOp(r.out[1]) = opDATA
      sentAck == Len(r.out) = 1 /\ PktOp(r.out[1]) = opACK
  IN
  IF ~ok THEN dirtySess
  ELSE IF ~had /\ op = opRRQ /\ sentData /\ ~gone
    THEN [noSess EXCEPT !.kind = "read", !.name = q.req.filename,
                        !.size = Len(store[q.req.filename]),
                        !.log = <<<<PktNum(r.out[1]), Len(PktBody(r.out[1]))>>>>]
  ELSE IF ~had /\ op = opWRQ /\ sentAck /\ ~gone
    THEN [noSess EXCEPT !.kind = "write", !.name = q.req.filename]
  ELSE IF s.kind = "read" /\ ~s.ended /\ op = opACK
          /\ q.req.number = s.log[Len(s.log)][1]
    THEN IF gone /\ r.out = <<>>
           THEN [s EXCEPT !.acked = s.acked + 1, !.ended = TRUE]
         ELSE IF sentData /\ ~gone
           THEN [s EXCEPT !.acked = s.acked + 1,
                          !.log = Append(s.log, <<PktNum(r.out[1]), Len(PktBody(r.out[1]))>>)]
         ELSE dirtySess
  ELSE IF s.kind = "write" /\ ~s.ended /\ op = opDATA
    THEN [s EXCEPT !.bytes = s.bytes \o q.req.body,
                   !.ended = Len(q.req.body) < defaultBlockSize]
  ELSE dirtySess

\* the DATA block sent last in a running read by the book
lastData(s) == IF s.kind = "read" /\ ~s.ended THEN s.log[Len(s.log)] ELSE <<>>

\* the addresses after their finished read, once address a has sent the
\* datagram in buf and its record has become s
nextFinished(fin, a, buf, s) ==
  IF s.kind = "read" /\ s.ended THEN fin \cup {a}
  ELSE IF buf[1] = 0 /\ buf[2] \in {opDATA, opACK} THEN fin
  ELSE fin \ {a}

\* no string has been handed to toCString or readCString
noCall == [src |-> <<>>, did |-> "none", buf |-> <<>>, n |-> 0, str |-> <<>>,
           err |-> FALSE]

\* a file was created, written, opened, read or closed between T and U
fileIO(T, U) ==
  \/ U.fs # T.fs
  \/ U.nopen # T.nopen
  \/ \E a \in DOMAIN U.connections :
       U.connections[a].file # (IF a \in DOMAIN T.connections
                                 THEN T.connections[a].file ELSE nilFile)

Init ==
  /\ connections = <<>>
  /\ \E n \in FileSizes : fs = (fileF :> content(n))
  /\ nopen = 0
  /\ body = [i \in 1..bodyMaxSize |-> 0]
  /\ crashed = FALSE
  /\ steps = 0
  /\ in = [addr |-> "none", numRead |-> 0, had |-> FALSE, stream |-> "none", failed |-> FALSE,
           io |-> FALSE, existed |-> FALSE, was |-> newClient, sent |-> <<>>,
           fault |-> "none"]
  /\ out = <<>>
  /\ sess = [a \in Addrs |-> noSess]
  /\ cstr = noCall
  /\ finished = {}

\* one turn of the loop of ListenAndServe: ReadFrom puts datagram d of
\* address a into the first Len(d) bytes of the buffer, handleConnection
\* handles it
ListenAndServe(a, d, fault) ==
  /\ ~crashed
  /\ steps < MaxSteps
  /\ \E buf \in {d \o SubSeq(body, Len(d) + 1, bodyMaxSize)} :
     \E T \in {[connections |-> connections, fs |-> fs, nopen |-> nopen]} :
     \E r \in {handleConnection(T, a, Len(d), buf, fault)} :
     \E q \in {newRequest(Len(d), buf)} :
       /\ body' = buf
       /\ connections' = r.T.connections
       /\ fs' = r.T.fs
       /\ nopen' = r.T.nopen
       /\ crashed' = r.crashed
       /\ out' = r.out
       /\ in' = [addr |-> a, numRead |-> Len(d), had |-> a \in DOMAIN connections,
                 stream |-> IF a \in DOMAIN connections
                              THEN connections[a].file.st ELSE "none",
                 failed |-> r.err.kind \notin {"nil", "endOfSession"},
                 io |-> fileIO(T, r.T),
                 existed |-> q.req.filename \in DOMAIN fs,
                 was |-> IF a \in DOMAIN connections THEN connections[a] ELSE newClient,
                 sent |-> lastData(sess[a]),
                 fault |-> fault]
       /\ sess' = [sess EXCEPT ![a] = nextSess(sess[a], a \in DOMAIN connections,
                                               q, r, a, fs)]
       /\ finished' = nextFinished(finished, a, buf, sess'[a])
  /\ steps' = steps + 1
  /\ UNCHANGED cstr

Next == \E i \in Inputs : ListenAndServe(i.addr, i.d, i.fault)

Spec == Init /\ [][Next]_vars

\* ------------------------------------------------------------------------
\* The server after a finished read.  handled(S, a, d) is the state that
\* one turn of the loop of ListenAndServe makes of state S and datagram d
\* of address a; the runs of SpecAfterRead start where address "a1" has
\* read the whole of "f" by the book (RRQ, then the ACK of every DATA
\* block) and its entry has been removed by the final ACK.
\* ------------------------------------------------------------------------
handled(S, a, d) ==
  Only({
    Only({
      Only({
        [connections |-> r.T.connections, fs |-> r.T.fs, nopen |-> r.T.nopen,
         body |-> buf, crashed |-> r.crashed, out |-> r.out,
         in |-> [addr |-> a, numRead |-> Len(d), had |-> a \in DOMAIN S.connections,
                 stream |-> IF a \in DOMAIN S.connections
                              THEN S.connections[a].file.st ELSE "none",
                 failed |-> r.err.kind \notin {"nil", "endOfSession"},
                 io |-> fileIO(S, r.T),
                 existed |-> q.req.filename \in DOMAIN S.fs,
                 was |-> IF a \in DOMAIN S.connections THEN S.connections[a]
                         ELSE newClient,
                 sent |-> lastData(S.sess[a]),
                 fault |-> "none"],
         sess |-> [S.sess EXCEPT ![a] = ns],
         finished |-> nextFinished(S.finished, a, buf, ns)]
        : ns \in {nextSess(S.sess[a], a \in DOMAIN S.connections, q, r, a, S.fs)}})
      : q \in {newRequest(Len(d), buf)}, r \in {handleConnection(S, a, Len(d), buf, "none")}})
    : buf \in {d \o SubSeq(S.body, Len(d) + 1, bodyMaxSize)}})

\* the server started over a file "f" of n bytes
started(n) ==
  [connections |-> <<>>, fs |-> (fileF :> content(n)), nopen |-> 0,
   body |-> [i \in 1..bodyMaxSize |-> 0], crashed |-> FALSE, out |-> <<>>,
   in |-> [addr |-> "none", numRead |-> 0, had |-> FALSE, stream |-> "none",
           failed |-> FALSE, io |-> FALSE, existed |-> FALSE, was |-> newClient,
           sent |-> <<>>, fault |-> "none"],
   sess |-> [a \in Addrs |-> noSess], finished |-> {}]

\* an empty "f" is read with RRQ, ACK 1; one of a full block with RRQ,
\* ACK 1, ACK 2
afterRead(n) ==
  IF n = 0
    THEN handled(handled(started(n), "a1", MkRQ(opRRQ, fileF, octet)), "a1", MkACK(1))
    ELSE handled(handled(handled(started(n), "a1", MkRQ(opRRQ, fileF, octet)),
                         "a1", MkACK(1)), "a1", MkACK(2))

InitAfterRead ==
  \E n \in {0, defaultBlockSize} :
    \E S \in {afterRead(n)} :
      /\ connections = S.connections
      /\ fs = S.fs
      /\ nopen = S.nopen
      /\ body = S.body
      /\ crashed = S.crashed
      /\ steps = 0
      /\ in = S.in
      /\ out = S.out
      /\ sess = S.sess
      /\ cstr = noCall
      /\ finished = S.finished

SpecAfterRead == InitAfterRead /\ [][Next]_vars

\* ------------------------------------------------------------------------
\* Reads driven to their end.  Each address asks for "f" once and then
\* acknowledges every DATA block it gets with the number of that block;
\* no I/O call fails.  A client that has a block to acknowledge does so
\* in the end, and the loop of ListenAndServe handles every datagram that
\* arrives: weak fairness of Acknowledge.
\* ------------------------------------------------------------------------
\* sizes of "f" the driven reads start from
ReadSizes == FileSizes \cup {2 * defaultBlockSize, 3 * defaultBlockSize - 36}

InitRead ==
  \E n \in ReadSizes :
    \E S \in {started(n)} :
      /\ connections = S.connections
      /\ fs = S.fs
      /\ nopen = S.nopen
      /\ body = S.body
      /\ crashed = S.crashed
      /\ steps = 0
      /\ in = S.in
      /\ out = S.out
      /\ sess = S.sess
      /\ cstr = noCall
      /\ finished = S.finished

current ==
  [connections |-> connections, fs |-> fs, nopen |-> nopen, body |-> body,
   crashed |-> crashed, out |-> out, in |-> in, sess |-> sess, finished |-> finished]

become(S) ==
  /\ connections' = S.connections
  /\ fs' = S.fs
  /\ nopen' = S.nopen
  /\ body' = S.body
  /\ crashed' = S.crashed
  /\ out' = S.out
  /\ in' = S.in
  /\ sess' = S.sess
  /\ finished' = S.finished
  /\ UNCHANGED <<steps, cstr>>

Request(a) ==
  /\ ~crashed
  /\ sess[a].kind = "none" /\ a \notin DOMAIN connections
  /\ become(handled(current, a, MkRQ(opRRQ, fileF, octet)))

Acknowledge(a) ==
  /\ ~crashed
  /\ lastData(sess[a]) # <<>>
  /\ become(handled(current, a, MkACK(lastData(sess[a])[1])))

NextRead == \E a \in Addrs : Request(a) \/ Acknowledge(a)

SpecRead == InitRead /\ [][NextRead]_vars /\ \A a \in Addrs : WF_vars(Acknowledge(a))

\* ------------------------------------------------------------------------
\* toCString and readCString on their own: a string src of at most MaxLen
\* bytes is drawn, then one of the calls is made; buf is what readCString
\* was handed, n, str and err what it returned.
\* ------------------------------------------------------------------------
Bytes == {0, 65, 66}
Strings == UNION {[1..k -> Bytes] : k \in 0..MaxLen}
hasZero(b) == \E i \in 1..Len(b) : b[i] = 0

InitCString ==
  /\ connections = <<>>
  /\ fs = (fileF :> <<>>)
  /\ nopen = 0
  /\ body = [i \in 1..bodyMaxSize |-> 0]
  /\ crashed = FALSE
  /\ steps = 0
  /\ in = [addr |-> "none", numRead |-> 0, had |-> FALSE, stream |-> "none", failed |-> FALSE,
           io |-> FALSE, existed |-> FALSE, was |-> newClient, sent |-> <<>>,
           fault |-> "none"]
  /\ out = <<>>
  /\ sess = [a \in Addrs |-> noSess]
  /\ \E s \in Strings : cstr = [noCall EXCEPT !.src = s]
  /\ finished = {}

callReadCString(did, b) ==
  /\ cstr.did = "none"
  /\ \E r \in {readCString(b)} :
       cstr' = [src |-> cstr.src, did |-> did, buf |-> b, n |-> r.n, str |-> r.str,
                err |-> r.err]
  /\ UNCHANGED <<connections, fs, nopen, body, crashed, steps, in, out, sess, finished>>

\* readCString(toCString(src)) of a string without a zero byte
RoundTrip == ~hasZero(cstr.src) /\ callReadCString("roundtrip", toCString(cstr.src))

\* readCString of any buffer
ReadAny == callReadCString("read", cstr.src)

\* readCString of toCString(src) with its last byte cut off
ReadCut ==
  callReadCString("cut", SubSeq(toCString(cstr.src), 1, Len(toCString(cstr.src)) - 1))

NextCString == RoundTrip \/ ReadAny \/ ReadCut

SpecCString == InitCString /\ [][NextCString]_vars

\* ------------------------------------------------------------------------
\* Properties
\* ------------------------------------------------------------------------
\* the ERROR packet of a code with its canonical message
ErrorPkt(a, code) ==
  [to |-> a, data |-> <<0, opERROR, code \div 256, code % 256>> \o toCString(tftpErrors(code))]

\* bytes [0,2) of the datagram handled last, as one big-endian number
wireOpcode == body[1] * 256 + body[2]

blocksOf(n) == (n + defaultBlockSize - 1) \div defaultBlockSize

\* a read transfer by the book over a file that still has the size it was
\* opened with
ReadBook(a) ==
  /\ sess[a].kind = "read"
  /\ Len(fs[sess[a].name]) = sess[a].size

\* C1: a read by the book over N bytes, N not a multiple of the block size,
\* gets ceil(N/B) DATA blocks numbered 1..ceil(N/B), the last of N mod B
\* bytes, and the table entry goes with the ACK of block ceil(N/B).
C1_ReadEndsOnShortBlock ==
  \A a \in Addrs :
    LET s == sess[a]
        k == blocksOf(s.size)
    IN
    (ReadBook(a) /\ s.size % defaultBlockSize # 0) =>
      /\ Len(s.log) <= k
      /\ \A i \in 1..Len(s.log) :
           s.log[i] = <<i, IF i = k THEN s.size % defaultBlockSize ELSE defaultBlockSize>>
      /\ s.ended <=> s.acked = k

\* C2: a read by the book over N bytes, N a multiple of the block size,
\* gets N/B full DATA blocks, then one empty block numbered N/B+1, and the
\* table entry goes with the ACK after the empty block.
C2_ReadEndsOnEmptyBlock ==
  \A a \in Addrs :
    LET s == sess[a]
        k == s.size \div defaultBlockSize
    IN
    (ReadBook(a) /\ s.size % defaultBlockSize = 0) =>
      /\ Len(s.log) <= k + 1
      /\ \A i \in 1..Len(s.log) :
           s.log[i] = <<i, IF i <= k THEN defaultBlockSize ELSE 0>>
      /\ s.acked <= k + 1
      /\ s.ended <=> s.acked = k + 1
      /\ s.ended <=> a \notin DOMAIN connections

C2_Witness ==
  \E a \in Addrs :
    /\ ReadBook(a) /\ sess[a].size = defaultBlockSize /\ sess[a].ended
    /\ sess[a].log = <<<<1, defaultBlockSize>>, <<2, 0>>>>

\* C3: in a write by the book the file holds the payloads in arrival order,
\* and the WRQ is answered with ACK 0, a DATA block n with ACK n.
C3_WriteConcatAndAck ==
  \A a \in Addrs :
    sess[a].kind = "write" =>
      /\ sess[a].name \in DOMAIN fs
      /\ fs[sess[a].name] = sess[a].bytes
      /\ in.addr = a => out = <<[to |-> a, data |-> MkACK(lastReq.req.number)]>>

C3_Witness ==
  \E a \in Addrs :
    /\ sess[a].kind = "write" /\ sess[a].ended
    /\ sess[a].bytes = fullA \o shortC
    /\ in.addr = a /\ lastReq.req.opcode = opDATA /\ lastReq.req.number = 2

\* C4: once the short DATA block of a write by the book has been written
\* and acknowledged, the session is gone from the table.
C4_WriteEndsOnShortBlock ==
  \A a \in Addrs :
    (sess[a].kind = "write" /\ sess[a].ended) => a \notin DOMAIN connections

\* C5: a DATA, ACK or ERROR datagram from an address without a table entry
\* is answered with UNKNOWN_TRANSFER_ID and leaves no entry for the address.
C5_UnknownLeavesNoEntry ==
  (in.addr \in Addrs /\ ~in.had /\ in.numRead >= hdrsize /\ lastReq.err.kind = "nil"
     /\ lastReq.req.opcode \in {opDATA, opACK, opERROR}) =>
    /\ out = <<ErrorPkt(in.addr, ecUTID)>>
    /\ in.addr \notin DOMAIN connections

\* C6: a datagram whose 16-bit opcode is 0 or above 5 is answered with
\* ILLEGAL_OPERATION and no file is opened, read or written.
C6_IllegalOpcode ==
  (in.addr \in Addrs /\ in.numRead >= 2 /\ wireOpcode \notin opRRQ..opERROR) =>
    /\ out = <<ErrorPkt(in.addr, ecILL)>>
    /\ ~in.io

C8_OneErrorPerFailure ==
  in.failed =>
    /\ Len(out) = 1
    /\ out[1].to = in.addr
    /\ PktOp(out[1]) = opERROR

\* C9: when handling a datagram of an address whose session has an open
\* stream fails (and the failure is recovered), the table entry of the
\* address is gone afterwards.
C9_FailureRemovesSession ==
  (in.failed /\ in.stream = "open" /\ ~crashed) => in.addr \notin DOMAIN connections

\* C10: no datagram ends the process.
C10_NeverPanics == ~crashed

\* an ACTIVE session: set up, its stream open, its last block not yet sent
Active(cli) == cli.inited /\ ~cli.lastPkt /\ cli.file.st = "open"

\* C11: an ERROR datagram from an address with an ACTIVE session is
\* answered with no packet at all and leaves the table entry (stream,
\* offset, bytesLeft, lastPkt) and the store as they were.
C11_PeerErrorIsNoOp ==
  (in.had /\ Active(in.was) /\ wireOpcode = opERROR /\ lastReq.err.kind = "nil") =>
    /\ out = <<>>
    /\ in.addr \in DOMAIN connections
    /\ connections[in.addr] = in.was
    /\ ~in.io

\* C12: every stream is closed before its session leaves the table: the
\* file handles the process holds open are those of the table entries,
\* and an entry that is removed did not hold an open stream.
C12_StreamClosedOnce ==
  /\ nopen = Cardinality({a \in DOMAIN connections : connections[a].file.st = "open"})
  /\ (in.had /\ in.addr \notin DOMAIN connections) => in.was.file.st # "open"

\* C13: readCString(toCString(s)) returns (len(s)+1, s, nil) for every
\* string s without a zero byte, the empty string included.
C13_RoundTrip ==
  cstr.did = "roundtrip" =>
    /\ cstr.n = Len(cstr.src) + 1
    /\ cstr.str = cstr.src
    /\ ~cstr.err

C13_Witness ==
  /\ cstr.did = "roundtrip" /\ cstr.src = <<>>
  /\ cstr.buf = <<0>> /\ cstr.n = 1 /\ cstr.str = <<>>

\* C14: readCString of a buffer without a zero byte (the empty buffer and
\* an encoding with its terminator cut off included) returns (0, "", error);
\* of a buffer with a zero byte it returns the bytes before the first zero
\* and their number plus one.
C14_NoTerminator ==
  cstr.did \in {"read", "cut"} =>
    IF hasZero(cstr.buf)
      THEN /\ ~cstr.err
           /\ cstr.n \in 1..Len(cstr.buf)
           /\ cstr.buf[cstr.n] = 0
           /\ ~hasZero(SubSeq(cstr.buf, 1, cstr.n - 1))
           /\ cstr.str = SubSeq(cstr.buf, 1, cstr.n - 1)
      ELSE cstr.err /\ cstr.n = 0 /\ cstr.str = <<>>

C14_Witness ==
  /\ cstr.did = "cut" /\ cstr.src = <<65, 66>> /\ cstr.buf = <<65, 66>>
  /\ cstr.err /\ cstr.n = 0

\* the datagram handled last is an ACK, from an address in a read by the
\* book, whose number is not that of the DATA block sent last
otherAck ==
  /\ in.had /\ in.sent # <<>>
  /\ in.numRead >= hdrsize /\ wireOpcode = opACK
  /\ lastReq.req.number # in.sent[1]

\* C15: in an ACTIVE READ session an ACK whose number is not that of the
\* DATA block sent last reads nothing from the stream: the offset and
\* bytesLeft stay and no DATA block is sent.
C15_OnlyMatchingAck ==
  (otherAck /\ Active(in.was)) =>
    /\ in.addr \in DOMAIN connections
    /\ connections[in.addr].file.pos = in.was.file.pos
    /\ connections[in.addr].bytesLeft = in.was.bytesLeft
    /\ \A i \in 1..Len(out) : PktOp(out[i]) # opDATA

\* the DATA block sent last in the read by the book was its final one:
\* shorter than a full block
finalSent == in.sent # <<>> /\ in.sent[2] < defaultBlockSize

\* C16: once the final DATA block k of a read has been sent, an ACK with a
\* number other than k does not remove the table entry.
C16_OnlyFinalAckRemoves ==
  (otherAck /\ finalSent) => in.addr \in DOMAIN connections

\* C17: an address whose read was removed by its final ACK gets
\* UNKNOWN_TRANSFER_ID for every DATA or ACK datagram it sends from then
\* on, the first and the later ones alike.
C17_UnknownAfterEnd ==
  (in.addr \in finished /\ sess[in.addr].kind # "read" /\ in.numRead >= hdrsize
     /\ wireOpcode \in {opDATA, opACK}) =>
    out = <<ErrorPkt(in.addr, ecUTID)>>

\* the runs of SpecAfterRead start in states the server reaches
AfterReadReached ==
  \E S \in {afterRead(0)} :
    /\ connections = S.connections /\ fs = S.fs /\ nopen = S.nopen /\ body = S.body
    /\ crashed = S.crashed /\ in = S.in /\ out = S.out /\ sess = S.sess
    /\ finished = S.finished /\ "a1" \in finished

\* the datagram handled last, and the file name and mode strings it holds
\* after its opcode
dgram == SubSeq(body, 1, in.numRead)
wireName == readCString(Tail0(dgram, 2))
wireMode == readCString(Tail0(Tail0(dgram, 2), wireName.n))

\* C18: an RRQ or WRQ whose mode string is not "octet" is answered with one
\* ERROR packet, and no file is opened or created.
C18_ModeNotOctet ==
  (in.addr \in Addrs /\ in.numRead >= 2 /\ wireOpcode \in {opRRQ, opWRQ}
     /\ ~wireName.err /\ ~wireMode.err /\ wireMode.str # octet) =>
    /\ Len(out) = 1
    /\ out[1].to = in.addr
    /\ PktOp(out[1]) = opERROR
    /\ ~in.io

C18_Witness ==
  /\ in.addr \in Addrs /\ wireOpcode = opWRQ
  /\ ~wireName.err /\ wireName.str = fileG
  /\ ~wireMode.err /\ wireMode.str = netascii
  /\ out = <<[to |-> in.addr,
              data |-> MkERROR(ecNDEF, modePrefix \o netascii \o modeSuffix)]>>
  /\ fileG \notin DOMAIN fs

\* C19: the opcode is the big-endian number in bytes [0,2): a datagram
\* whose first byte is not zero is answered with ILLEGAL_OPERATION and is
\* not handled as a request of opcode 1..5 (no file is touched).
C19_OpcodeIsBigEndian ==
  (in.addr \in Addrs /\ in.numRead >= 2 /\ body[1] # 0) =>
    /\ out = <<ErrorPkt(in.addr, ecILL)>>
    /\ ~in.io

\* C20: a DATA block sent in reply to an ACK n is numbered (n+1) mod 65536
\* and one sent in reply to an RRQ is numbered 1; ACK 65535 in an ACTIVE
\* session is answered with DATA 0, without a failure, and the table entry
\* stays.
C20_BlockNumberWraps ==
  /\ \A i \in 1..Len(out) :
       PktOp(out[i]) = opDATA =>
         /\ wireOpcode = opACK => PktNum(out[i]) = (lastReq.req.number + 1) % 65536
         /\ wireOpcode = opRRQ => PktNum(out[i]) = 1
  /\ (in.had /\ Active(in.was) /\ in.numRead >= hdrsize /\ wireOpcode = opACK
        /\ lastReq.req.number = 65535) =>
       /\ Len(out) = 1 /\ PktOp(out[1]) = opDATA /\ PktNum(out[1]) = 0
       /\ ~in.failed /\ ~crashed
       /\ in.addr \in DOMAIN connections

C20_Witness ==
  /\ in.had /\ Active(in.was) /\ wireOpcode = opACK /\ lastReq.req.number = 65535
  /\ Len(out) = 1 /\ PktOp(out[1]) = opDATA /\ PktNum(out[1]) = 0
  /\ Len(PktBody(out[1])) > 0
  /\ in.addr \in DOMAIN connections

\* the datagram handled last is a well-formed RRQ or WRQ from an address
\* that had no session set up: prepareFromRequest ran for it
opening ==
  /\ in.addr \in Addrs /\ ~in.was.inited
  /\ wireOpcode \in {opRRQ, opWRQ} /\ lastReq.err.kind = "nil"

\* the answer to a failure that has no code of its own
UnexpectedPkt(a) == [to |-> a, data |-> MkERROR(ecNDEF, msgUnexpected)]

\* C21: when opening the file of an RRQ or WRQ fails, the ERROR sent is
\* FILE_NOT_FOUND for a missing file, ACCESS_VIOLATION for a denied
\* access, DISK_FULL for a lack of space and UNDEFINED with the generic
\* message otherwise, whether os.Open, os.Create or the os.Stat before
\* os.Create met the failure.
C21_OpenFailureCodes ==
  opening =>
    /\ (in.fault = "none" /\ wireOpcode = opRRQ /\ ~in.existed) =>
         out = <<ErrorPkt(in.addr, ecFNF)>>
    /\ (in.fault = "eacces" /\ (wireOpcode = opWRQ => ~in.existed)) =>
         out = <<ErrorPkt(in.addr, ecACV)>>
    /\ (in.fault = "createnospc" /\ wireOpcode = opWRQ /\ ~in.existed) =>
         out = <<ErrorPkt(in.addr, ecDSK)>>
    /\ (in.fault = "openio" /\ (wireOpcode = opWRQ => ~in.existed)) =>
         out = <<UnexpectedPkt(in.addr)>>
    /\ (in.fault = "statacces" /\ wireOpcode = opWRQ) =>
         out = <<ErrorPkt(in.addr, ecACV)>>
    /\ (in.fault = "statio" /\ wireOpcode = opWRQ) =>
         out = <<UnexpectedPkt(in.addr)>>

\* C21 without the failures of os.Stat: the switch over the error of
\* os.Open and os.Create
OpenSwitchCodes ==
  (opening /\ in.fault \notin {"statacces", "statio"}) => C21_OpenFailureCodes

\* the READ session of address a has just ended: its entry, whose stream
\* was closed, has been removed by the ACK handled last
readEnded(a) ==
  /\ in.addr = a /\ in.had /\ in.was.file.st = "closed"
  /\ a \notin DOMAIN connections
  /\ sess[a].ended
  /\ nopen = Cardinality({b \in DOMAIN connections : connections[b].file.st = "open"})

\* C22: a READ session whose client acknowledges every DATA block with the
\* number of that block, and whose file reads do not fail, ends: its
\* stream is closed and its entry removed from the table.
C22_ReadTerminates ==
  \A a \in Addrs : (sess[a].kind = "read" /\ ~sess[a].ended) ~> readEnded(a)

C22_Witness ==
  /\ readEnded("a1") /\ sess["a1"].kind = "read" /\ sess["a1"].size = 1000
  /\ sess["a1"].acked = 3

\* C23: when the RRQ or WRQ handled last failed to open a session, an RRQ
\* for the existing file "f" that the same address sends next is answered
\* with DATA 1 and a WRQ for the missing file "g" with ACK 0, and the
\* session is open: the stream is open and, for the WRQ, the file exists.
C23_RetryOpensSession ==
  [][(opening /\ in.failed /\ ~crashed /\ in'.addr = in.addr /\ in'.fault = "none") =>
       /\ SubSeq(body', 1, in'.numRead) = MkRQ(opRRQ, fileF, octet) =>
            /\ Len(out') = 1 /\ PktOp(out'[1]) = opDATA /\ PktNum(out'[1]) = 1
            /\ connections'[in.addr].file.name = fileF
       /\ (SubSeq(body', 1, in'.numRead) = MkRQ(opWRQ, fileG, octet)
             /\ fileG \notin DOMAIN fs) =>
            /\ out' = <<[to |-> in.addr, data |-> MkACK(0)]>>
            /\ fileG \in DOMAIN fs'
            /\ connections'[in.addr].file.st = "open"]_vars

\* C24: while a session is ACTIVE, one opened by an RRQ (its stream is
\* read-only) is sent no ACK packet and one opened by a WRQ (its stream
\* is writable) no DATA packet, whatever its address sends.
C24_DirectionOfPackets ==
  (in.had /\ Active(in.was)) =>
    \A i \in 1..Len(out) :
      PktOp(out[i]) # (IF in.was.file.wr THEN opDATA ELSE opACK)

\* what handling a request goes by: the error of newRequest and the fields
\* of the request that handleRequest and newResponse read
decoded(q) ==
  [err |-> q.err, opcode |-> q.req.opcode, filename |-> q.req.filename,
   mode |-> q.req.mode, number |-> q.req.number,
   body |-> IF q.req.opcode = opDATA THEN q.req.body ELSE <<>>]

\* the datagram handled last in a buffer that holds 255 in every byte
\* the datagram did not fill
ownBytes == dgram \o [i \in 1..(bodyMaxSize - in.numRead) |-> 255]

\* C25: the request decoded from a datagram is that of its own numRead
\* bytes, whatever the rest of the receive buffer holds; an RRQ or WRQ
\* whose file name or mode is not ended by a zero byte within the datagram
\* is answered with an ERROR packet and touches no file.
C25_OnlyOwnBytes ==
  in.addr \in Addrs =>
    /\ decoded(lastReq) = decoded(newRequest(in.numRead, ownBytes))
    /\ (in.numRead >= 2 /\ wireOpcode \in {opRRQ, opWRQ}
          /\ (wireName.err \/ wireMode.err)) =>
         /\ Len(out) = 1 /\ PktOp(out[1]) = opERROR
         /\ ~in.io

====
